---- MODULE Spec2Model ----
(***************************************************************************)
(* Model of QuestionnaireAnalyzer (questionnaire_visualizer_updated.py):   *)
(* parse_md_metadata_with_data and the way main() calls it, the summary,    *)
(* the weighted rating average, the matching of the questions of two       *)
(* surveys and the alignment of the options of a matched pair.             *)
(*                                                                         *)
(* A text is a sequence of characters; a character is a one-token string.  *)
(* The non-ASCII characters of the source are written with ASCII tokens:   *)
(*   "wen" "ti"            the marker U+95EE U+9898 at the start of a      *)
(*                         question line                                   *)
(*   "["  "]"              the full-width brackets U+3010 and U+3011       *)
(*   "dan" "duo" "xuan" "ping" "fen" "tian" "kong"                         *)
(*                         the characters of the four type labels          *)
(*   "qi" "ta"             the characters of a label that is not a type    *)
(* Python indices are kept 0-based: the cursor i designates lines[i + 1].  *)
(***************************************************************************)
EXTENDS Integers, Sequences, FiniteSets, TLC

VARIABLES
    uploads,        \* the texts of the uploaded files: [md |-> text, comparison |-> text]
    mode,           \* analysis_mode of the running main(): "single" or "compare"
    self,           \* the analyzer: [questions, comparison_questions]
    frame,          \* per call: the locals of parse_md_metadata_with_data
    returned,       \* history: [text, survey, again] of every return of parse so far;
                    \* again tells that the same text had been parsed before
    out             \* what the last operation on the parsed surveys gave its caller

vars == <<uploads, mode, self, frame, returned, out>>

(***************************************************************************)
(* Bounds of the model.                                                    *)
(***************************************************************************)
MaxLines == 3       \* lines of a document of Spec
MaxSessionLines == 2 \* lines of a document of SpecSession

(***************************************************************************)
(* Python string primitives, over sequences of characters.                 *)
(***************************************************************************)
NL == "\n"
Whitespace == {" ", "\t", NL}

RECURSIVE lstrip(_)
lstrip(s) ==
    IF s # <<>> /\ Head(s) \in Whitespace THEN lstrip(Tail(s)) ELSE s

RECURSIVE rstrip(_)
rstrip(s) ==
    IF s # <<>> /\ s[Len(s)] \in Whitespace
    THEN rstrip(SubSeq(s, 1, Len(s) - 1)) ELSE s

\* str.strip()
strip(s) == rstrip(lstrip(s))

RECURSIVE rstrip_tab(_)
\* str.rstrip('\t')
rstrip_tab(s) ==
    IF s # <<>> /\ s[Len(s)] = "\t"
    THEN rstrip_tab(SubSeq(s, 1, Len(s) - 1)) ELSE s

\* str.startswith(p)
startswith(s, p) == Len(s) >= Len(p) /\ SubSeq(s, 1, Len(p)) = p

\* str.find(sub), 1-based; 0 when sub does not occur
find(s, sub) ==
    LET at == {k \in 1..(Len(s) - Len(sub) + 1) : SubSeq(s, k, k + Len(sub) - 1) = sub}
    IN  IF at = {} THEN 0 ELSE CHOOSE k \in at : \A m \in at : k <= m

\* sub in s
contains(s, sub) == find(s, sub) # 0

\* s.split(sep)[0], sep one character
split_head(s, sep) ==
    LET k == find(s, <<sep>>) IN IF k # 0 THEN SubSeq(s, 1, k - 1) ELSE s

\* s.split(sep, 1)[1], sep one character occurring in s
split_rest(s, sep) == SubSeq(s, find(s, <<sep>>) + 1, Len(s))

RECURSIVE split_lines(_)
\* md_content.split('\n')
split_lines(s) ==
    LET k == find(s, <<NL>>)
    IN  IF k # 0
        THEN <<SubSeq(s, 1, k - 1)>> \o split_lines(SubSeq(s, k + 1, Len(s)))
        ELSE <<s>>

Digits == <<"0", "1", "2", "3", "4", "5", "6", "7", "8", "9">>
IsDigit(c) == \E k \in 1..Len(Digits) : Digits[k] = c
DigitVal(c) == (CHOOSE k \in 1..Len(Digits) : Digits[k] = c) - 1

RECURSIVE DecimalVal(_)
\* the value of a non-empty run of digits
DecimalVal(ds) ==
    IF ds = <<>> THEN 0
    ELSE 10 * DecimalVal(SubSeq(ds, 1, Len(ds) - 1)) + DigitVal(ds[Len(ds)])

AllDigits(s) == s # <<>> /\ \A k \in 1..Len(s) : IsDigit(s[k])

\* int(s): [ok |-> TRUE, val |-> n], or ok = FALSE when int raises ValueError.
\* int accepts surrounding whitespace and one sign before the digits.
int(s) ==
    LET t == strip(s)
        signed == t # <<>> /\ Head(t) \in {"+", "-"}
        ds == IF signed THEN Tail(t) ELSE t
    IN  IF AllDigits(ds)
        THEN [ok |-> TRUE,
              val |-> IF signed /\ Head(t) = "-" THEN 0 - DecimalVal(ds) ELSE DecimalVal(ds)]
        ELSE [ok |-> FALSE, val |-> 0]

\* variant of DigitRun: one digit (the pattern \d without the +)
DigitRun_single(s) == IF s # <<>> /\ IsDigit(Head(s)) THEN <<Head(s)>> ELSE <<>>

RECURSIVE DigitRun(_)
\* the longest prefix of s made of digits (the greedy \d+)
DigitRun(s) ==
    IF s # <<>> /\ IsDigit(Head(s)) THEN <<Head(s)>> \o DigitRun(Tail(s)) ELSE <<>>

\* re.search(r': (\d+)', s): the leftmost colon followed by one space and a
\* digit; group(1) is the run of digits there.  ok = FALSE when there is no match.
re_search_count(s) ==
    LET at == {k \in 1..(Len(s) - 2) :
                  s[k] = ":" /\ s[k + 1] = " " /\ IsDigit(s[k + 2])}
        k0 == CHOOSE k \in at : \A m \in at : k <= m
    IN  IF at = {} THEN [ok |-> FALSE, group1 |-> <<>>]
        ELSE [ok |-> TRUE, group1 |-> DigitRun(SubSeq(s, k0 + 2, Len(s)))]

(***************************************************************************)
(* QuestionnaireAnalyzer: constants and the records parse builds.          *)
(***************************************************************************)
Marker == <<"wen", "ti">>
LB == "["
RB == "]"

\* self.question_types, in the dict's insertion order
question_types ==
    << [label |-> <<"dan", "xuan", "ti">>,  type |-> "single_choice"],
       [label |-> <<"duo", "xuan", "ti">>,  type |-> "multiple_choice"],
       [label |-> <<"ping", "fen", "ti">>,  type |-> "rating"],
       [label |-> <<"tian", "kong", "ti">>, type |-> "fill_in_blank"] >>

\* Python's None for question_type / current_question / current_question_text
NoType == "None"
NoQuestion == <<>>
Some(q) == <<q>>

\* the test of lines 56 and 96
is_question_line(line) ==
    startswith(line, Marker) /\ contains(line, <<LB>>) /\ contains(line, <<RB>>)

\* lines 62-66: the first label of the table whose bracketed form occurs in the line
lookup_type(line) ==
    LET hits == {k \in 1..Len(question_types) :
                    contains(line, <<LB>> \o question_types[k].label \o <<RB>>)}
    IN  IF hits = {} THEN NoType
        ELSE question_types[CHOOSE k \in hits : \A m \in hits : k <= m].type

\* lines 73-74
question_text_of(line) ==
    rstrip_tab(strip(IF contains(line, <<RB>>) THEN split_rest(line, RB) ELSE line))

\* lines 78-83
new_question(text, type) ==
    [text |-> text, type |-> type, options |-> <<>>, data |-> <<>>]

\* A dict is the sequence of its [key, value] items in insertion order.
dict_keys(d) == {d[k].key : k \in 1..Len(d)}
dict_get(d, key) == d[CHOOSE k \in 1..Len(d) : d[k].key = key].value

\* variant of dict_set: d.setdefault(key, value), an existing key keeps its value
dict_set_keep_first(d, key, value) ==
    IF key \in dict_keys(d) THEN d
    ELSE Append(d, [key |-> key, value |-> value])

\* d[key] = value: an existing key keeps its position
dict_set(d, key, value) ==
    IF key \in dict_keys(d)
    THEN [k \in 1..Len(d) |-> IF d[k].key = key THEN [key |-> key, value |-> value] ELSE d[k]]
    ELSE Append(d, [key |-> key, value |-> value])

\* lines 58-59 and 125-126: commit the question under construction, if any
save_current(questions, current_question, current_question_text) ==
    IF current_question # NoQuestion
    THEN dict_set(questions, current_question_text, current_question[1])
    ELSE questions

\* variant of new_questions: the call fills the analyzer's own dict
new_questions_shared(analyzer) == analyzer.questions

\* line 44: the dict a call starts from
new_questions(analyzer) == <<>>

\* lines 102-106: the total of a fill-in-blank question; the bare except
\* turns a ValueError of int into [0]
fill_data(data_line) ==
    LET r == int(data_line)
    IN  [raised |-> FALSE, data |-> IF r.ok THEN <<r.val>> ELSE <<0>>]

\* variant of with_option: the name is appended before the count is looked for
with_option_unpaired(question, data_line) ==
    LET option_name == strip(split_head(data_line, ":"))
        count_match == re_search_count(data_line)
    IN  IF ~contains(data_line, <<":">>) THEN question
        ELSE IF count_match.ok
        THEN [question EXCEPT !.options = Append(@, option_name),
                              !.data = Append(@, DecimalVal(count_match.group1))]
        ELSE [question EXCEPT !.options = Append(@, option_name)]

\* lines 111-118: an option line appends (name, count) or leaves the question as it is
with_option(question, data_line) ==
    LET option_name == strip(split_head(data_line, ":"))
        count_match == re_search_count(data_line)
    IN  IF contains(data_line, <<":">>) /\ count_match.ok
        THEN [question EXCEPT !.options = Append(@, option_name),
                              !.data = Append(@, DecimalVal(count_match.group1))]
        ELSE question

(***************************************************************************)
(* Input documents.                                                        *)
(***************************************************************************)
Single == question_types[1].label
Multi == question_types[2].label
Rating == question_types[3].label
Fill == question_types[4].label
Other == <<"qi", "ta">>

\* a question line: marker, number, colon, bracketed tag, rest
QLine(tag, rest) == Marker \o <<"1", ":", LB>> \o tag \o <<RB>> \o rest

HeaderLines ==
    { QLine(Single, <<"a">>),                               \* single choice "a"
      QLine(Fill, <<" ", "a", "\t">>),                      \* fill in blank, "a" once trimmed
      QLine(Rating, <<"b">>),                               \* rating "b"
      QLine(Single, <<>>),                                  \* nothing after the bracket
      QLine(Other, <<"c">>),                                \* a tag that is no type label
      QLine(Other, <<"c", LB>> \o Single \o <<RB, "d">>) }  \* ... with a label later in the line

DataLines ==
    { <<"A", ":", " ", "5">>,
      <<"B", ":", " ", "1", "2", " ", "(", "8", "%", ")">>,
      <<"A", ":", " ", "1", ".", "5">>,
      <<"B", ":", " ", "x">>,
      <<"3", "7">>,
      <<"-", "5">> }

BlankLines == { <<>>, <<" ">> }

Lines == HeaderLines \cup DataLines \cup BlankLines

SessionLines ==
    { QLine(Single, <<"a">>), QLine(Fill, <<" ", "a", "\t">>), QLine(Other, <<"c">>),
      <<"A", ":", " ", "5">>, <<" ">> }

RECURSIVE join(_)
\* '\n'.join(ls), ls non-empty
join(ls) == IF Len(ls) = 1 THEN ls[1] ELSE ls[1] \o <<NL>> \o join(Tail(ls))

\* the texts of 1..n lines drawn from a set of lines
Texts(lineset, n) == {join(ls) : ls \in UNION {[1..k -> lineset] : k \in 1..n}}

(***************************************************************************)
(* State.                                                                  *)
(***************************************************************************)
\* QuestionnaireAnalyzer.__init__, the fields parse and its callers touch
new_analyzer == [questions |-> <<>>, comparison_questions |-> <<>>]

\* no operation on the parsed surveys has run yet
NoOut == [op |-> "none"]

\* a call main() has not made yet
pending_frame ==
    [pc |-> "pending", md_content |-> <<>>, lines |-> <<>>, i |-> 0,
     questions |-> <<>>, current_question |-> NoQuestion,
     current_question_text |-> <<>>, question_type |-> NoType]

\* call 1 parses the first file into questions; in comparison mode call 2
\* parses the second file into comparison_questions
frames_of(m) == IF m = "single" THEN <<pending_frame>> ELSE <<pending_frame, pending_frame>>
argument(c) == IF c = 1 THEN uploads.md ELSE uploads.comparison
target(c) == IF c = 1 THEN "questions" ELSE "comparison_questions"

Init ==
    /\ mode = "single"
    /\ \E t \in Texts(Lines, MaxLines) : uploads = [md |-> t, comparison |-> <<>>]
    /\ self = new_analyzer
    /\ frame = frames_of(mode)
    /\ returned = {}
    /\ out = NoOut

InitSession ==
    /\ mode \in {"single", "compare"}
    /\ \E t1 \in Texts(SessionLines, MaxSessionLines), t2 \in Texts(SessionLines, 1) :
           uploads = [md |-> t1, comparison |-> t2]
    /\ self = new_analyzer
    /\ frame = frames_of(mode)
    /\ returned = {}
    /\ out = NoOut

(***************************************************************************)
(* parse_md_metadata_with_data, one action per loop iteration.             *)
(***************************************************************************)
at_end(f) == f.i >= Len(f.lines)
\* lines 53 and 88
stripped_line(f) == strip(f.lines[f.i + 1])

\* lines 44-51, entered from line 866, 867 or 1188
Call(c) ==
    /\ c \in DOMAIN frame
    /\ frame[c].pc = "pending"
    /\ \A d \in 1..(c - 1) : frame[d].pc = "assigned"
    /\ frame' = [frame EXCEPT ![c] =
           [pc |-> "outer", md_content |-> argument(c),
            lines |-> split_lines(argument(c)), i |-> 0,
            questions |-> new_questions(self),
            current_question |-> NoQuestion,
            current_question_text |-> <<>>, question_type |-> NoType]]
    /\ UNCHANGED <<uploads, mode, self, returned, out>>

\* lines 52-56, 121-122: a line that is no question line
OuterSkip(c) ==
    LET f == frame[c] IN
    /\ c \in DOMAIN frame
    /\ f.pc = "outer" /\ ~at_end(f)
    /\ ~is_question_line(stripped_line(f))
    /\ frame' = [frame EXCEPT ![c].i = f.i + 1]
    /\ UNCHANGED <<uploads, mode, self, returned, out>>

\* variant of OuterUnrecognized: without the i += 1 of line 69
OuterUnrecognized_NoAdvance(c) ==
    LET f == frame[c] IN
    /\ c \in DOMAIN frame
    /\ f.pc = "outer" /\ ~at_end(f)
    /\ is_question_line(stripped_line(f))
    /\ lookup_type(stripped_line(f)) = NoType
    /\ frame' = [frame EXCEPT
           ![c].questions = save_current(f.questions, f.current_question,
                                         f.current_question_text),
           ![c].question_type = NoType]
    /\ UNCHANGED <<uploads, mode, self, returned, out>>

\* lines 56-70: a question line without a type label
OuterUnrecognized(c) ==
    LET f == frame[c] IN
    /\ c \in DOMAIN frame
    /\ f.pc = "outer" /\ ~at_end(f)
    /\ is_question_line(stripped_line(f))
    /\ lookup_type(stripped_line(f)) = NoType
    /\ frame' = [frame EXCEPT
           ![c].questions = save_current(f.questions, f.current_question,
                                         f.current_question_text),
           ![c].question_type = NoType,
           ![c].i = f.i + 1]
    /\ UNCHANGED <<uploads, mode, self, returned, out>>

\* lines 56-86: a question line with a type label starts a question
OuterHeader(c) ==
    LET f == frame[c]
        line == stripped_line(f)
        question_type == lookup_type(line)
        question_text == question_text_of(line)
    IN
    /\ c \in DOMAIN frame
    /\ f.pc = "outer" /\ ~at_end(f)
    /\ is_question_line(line)
    /\ question_type # NoType
    /\ frame' = [frame EXCEPT
           ![c].questions = save_current(f.questions, f.current_question,
                                         f.current_question_text),
           ![c].question_type = question_type,
           ![c].current_question_text = question_text,
           ![c].current_question = Some(new_question(question_text, question_type)),
           ![c].i = f.i + 1,
           ![c].pc = "inner"]
    /\ UNCHANGED <<uploads, mode, self, returned, out>>

\* line 87: the data scan reaches the end of the input
InnerEnd(c) ==
    LET f == frame[c] IN
    /\ c \in DOMAIN frame
    /\ f.pc = "inner" /\ at_end(f)
    /\ frame' = [frame EXCEPT ![c].pc = "outer"]
    /\ UNCHANGED <<uploads, mode, self, returned, out>>

\* variant of InnerBlank: an empty line ends the data scan
InnerBlank_EndsBlock(c) ==
    LET f == frame[c] IN
    /\ c \in DOMAIN frame
    /\ f.pc = "inner" /\ ~at_end(f)
    /\ stripped_line(f) = <<>>
    /\ frame' = [frame EXCEPT ![c].i = f.i + 1, ![c].pc = "outer"]
    /\ UNCHANGED <<uploads, mode, self, returned, out>>

\* lines 88-93: an empty line is skipped
InnerBlank(c) ==
    LET f == frame[c] IN
    /\ c \in DOMAIN frame
    /\ f.pc = "inner" /\ ~at_end(f)
    /\ stripped_line(f) = <<>>
    /\ frame' = [frame EXCEPT ![c].i = f.i + 1]
    /\ UNCHANGED <<uploads, mode, self, returned, out>>

\* variant of InnerBreak: the question line that ends the data scan is consumed
InnerBreak_Consume(c) ==
    LET f == frame[c] IN
    /\ c \in DOMAIN frame
    /\ f.pc = "inner" /\ ~at_end(f)
    /\ stripped_line(f) # <<>>
    /\ is_question_line(stripped_line(f))
    /\ frame' = [frame EXCEPT ![c].i = f.i + 1, ![c].pc = "outer"]
    /\ UNCHANGED <<uploads, mode, self, returned, out>>

\* lines 95-97: the next question line ends the data scan and is not consumed
InnerBreak(c) ==
    LET f == frame[c] IN
    /\ c \in DOMAIN frame
    /\ f.pc = "inner" /\ ~at_end(f)
    /\ stripped_line(f) # <<>>
    /\ is_question_line(stripped_line(f))
    /\ frame' = [frame EXCEPT ![c].pc = "outer"]
    /\ UNCHANGED <<uploads, mode, self, returned, out>>

\* variant of InnerFill: without the break of line 108
InnerFill_NoBreak(c) ==
    LET f == frame[c]
        r == fill_data(stripped_line(f))
    IN
    /\ c \in DOMAIN frame
    /\ f.pc = "inner" /\ ~at_end(f)
    /\ stripped_line(f) # <<>>
    /\ ~is_question_line(stripped_line(f))
    /\ f.question_type = "fill_in_blank"
    /\ frame' = [frame EXCEPT
                    ![c].current_question = Some([f.current_question[1] EXCEPT !.data = r.data]),
                    ![c].i = f.i + 1]
    /\ UNCHANGED <<uploads, mode, self, returned, out>>

\* lines 100-108: the one data line of a fill-in-blank question
InnerFill(c) ==
    LET f == frame[c]
        r == fill_data(stripped_line(f))
    IN
    /\ c \in DOMAIN frame
    /\ f.pc = "inner" /\ ~at_end(f)
    /\ stripped_line(f) # <<>>
    /\ ~is_question_line(stripped_line(f))
    /\ f.question_type = "fill_in_blank"
    /\ frame' = IF r.raised
                THEN [frame EXCEPT ![c].pc = "raised"]
                ELSE [frame EXCEPT
                         ![c].current_question = Some([f.current_question[1] EXCEPT !.data = r.data]),
                         ![c].i = f.i + 1,
                         ![c].pc = "outer"]
    /\ UNCHANGED <<uploads, mode, self, returned, out>>

\* lines 109-120: a data line of a question of another type
InnerOption(c) ==
    LET f == frame[c] IN
    /\ c \in DOMAIN frame
    /\ f.pc = "inner" /\ ~at_end(f)
    /\ stripped_line(f) # <<>>
    /\ ~is_question_line(stripped_line(f))
    /\ f.question_type # "fill_in_blank"
    /\ frame' = [frame EXCEPT
           ![c].current_question = Some(with_option(f.current_question[1], stripped_line(f))),
           ![c].i = f.i + 1]
    /\ UNCHANGED <<uploads, mode, self, returned, out>>

\* variant of Return: parse stores the dict in the analyzer itself
Return_Storing(c) ==
    LET f == frame[c]
        questions == save_current(f.questions, f.current_question, f.current_question_text)
    IN
    /\ c \in DOMAIN frame
    /\ f.pc = "outer" /\ at_end(f)
    /\ frame' = [frame EXCEPT ![c].questions = questions, ![c].pc = "returned"]
    /\ returned' = returned \cup
           {[text |-> f.md_content, survey |-> questions,
             again |-> \E p \in returned : p.text = f.md_content]}
    /\ self' = [self EXCEPT ![target(c)] = questions]
    /\ UNCHANGED <<uploads, mode, out>>

\* lines 124-128: the last question is saved and the dict returned
Return(c) ==
    LET f == frame[c]
        questions == save_current(f.questions, f.current_question, f.current_question_text)
    IN
    /\ c \in DOMAIN frame
    /\ f.pc = "outer" /\ at_end(f)
    /\ frame' = [frame EXCEPT ![c].questions = questions, ![c].pc = "returned"]
    /\ returned' = returned \cup
           {[text |-> f.md_content, survey |-> questions,
             again |-> \E p \in returned : p.text = f.md_content]}
    /\ UNCHANGED <<uploads, mode, self, out>>

\* lines 866, 867, 1188: the caller stores the result in the analyzer
Assign(c) ==
    /\ c \in DOMAIN frame
    /\ frame[c].pc = "returned"
    /\ self' = [self EXCEPT ![target(c)] = frame[c].questions]
    /\ frame' = [frame EXCEPT ![c].pc = "assigned"]
    /\ UNCHANGED <<uploads, mode, returned, out>>

\* lines 803-867: the script runs again, on a new analyzer; the user may have
\* switched the mode and uploaded the files the other way round
Rerun(m, swap) ==
    /\ \A c \in DOMAIN frame : frame[c].pc = "assigned"
    /\ mode' = m
    /\ uploads' = IF swap THEN [md |-> uploads.comparison, comparison |-> uploads.md]
                  ELSE uploads
    /\ self' = new_analyzer
    /\ frame' = frames_of(m)
    /\ out' = NoOut
    /\ UNCHANGED returned

\* the calls main() makes in one run: 1 in single mode, 1 and 2 in comparison mode
Calls == {1, 2}

Next ==
    \/ \E c \in Calls : Call(c)
    \/ \E c \in Calls : OuterSkip(c)
    \/ \E c \in Calls : OuterUnrecognized(c)
    \/ \E c \in Calls : OuterHeader(c)
    \/ \E c \in Calls : InnerEnd(c)
    \/ \E c \in Calls : InnerBlank(c)
    \/ \E c \in Calls : InnerBreak(c)
    \/ \E c \in Calls : InnerFill(c)
    \/ \E c \in Calls : InnerOption(c)
    \/ \E c \in Calls : Return(c)
    \/ \E c \in Calls : Assign(c)

NextSession ==
    \/ Next
    \/ \E m \in {"single", "compare"}, swap \in BOOLEAN : Rerun(m, swap)

\* one run of main() on one uploaded file
Spec == Init /\ [][Next]_vars

\* a session: runs of main() in either mode over two uploaded files
SpecSession == InitSession /\ [][NextSession]_vars

(***************************************************************************)
(* Vocabulary of the properties.                                           *)
(***************************************************************************)
\* the questions of a Survey
QuestionsOf(survey) == {survey[k].value : k \in 1..Len(survey)}

\* the stripped lines of a text
StrippedLines(text) ==
    LET ls == split_lines(text) IN [k \in 1..Len(ls) |-> strip(ls[k])]

\* a line the parser starts a question at
StartsQuestion(line) == is_question_line(line) /\ lookup_type(line) # NoType

\* index of the header of the question under construction: the last line
\* among the n lines already consumed that started a question
HeaderIndex(ls, n) ==
    CHOOSE h \in 1..n : /\ StartsQuestion(ls[h])
                        /\ \A j \in (h + 1)..n : ~StartsQuestion(ls[j])

\* the lines of ls after header h up to the next question line (or the end
\* Len(ls)), stripped, with the empty ones left out or kept
BlockWithBlanks(ls, h) ==
    LET stops == {j \in (h + 1)..Len(ls) : is_question_line(ls[j])}
        last == IF stops = {} THEN Len(ls)
                ELSE (CHOOSE j \in stops : \A m \in stops : j <= m) - 1
    IN  SubSeq(ls, h + 1, last)

Block(ls, h) ==
    LET NonBlank(l) == l # <<>> IN SelectSeq(BlockWithBlanks(ls, h), NonBlank)

\* the lines of a frame that the cursor has passed, stripped
Consumed(f) == [k \in 1..f.i |-> strip(f.lines[k])]

RECURSIVE WithOptions(_, _)
\* the question after the data lines of block, in order
WithOptions(question, block) ==
    IF block = <<>> THEN question
    ELSE WithOptions(with_option(question, Head(block)), Tail(block))

(***************************************************************************)
(* C1  In every Survey returned by parse, a question that is not           *)
(* fill-in-blank has as many options as counts, and a fill-in-blank        *)
(* question has no option and at most one count.                           *)
(***************************************************************************)
C1_OptionsParallelCounts ==
    \A p \in returned : \A q \in QuestionsOf(p.survey) :
        IF q.type # "fill_in_blank"
        THEN Len(q.options) = Len(q.data)
        ELSE q.options = <<>> /\ Len(q.data) <= 1

\* a returned Survey with a fill-in-blank question and a question of another
\* type that has an option
C1_Witness ==
    \E p \in returned :
        /\ \E q \in QuestionsOf(p.survey) : q.type = "fill_in_blank"
        /\ \E q \in QuestionsOf(p.survey) : q.type # "fill_in_blank" /\ Len(q.options) >= 1

(***************************************************************************)
(* C2  Every count of every question of a returned Survey is a             *)
(* non-negative integer, the total of a fill-in-blank question included.   *)
(***************************************************************************)
C2_CountsNonNegative ==
    \A p \in returned : \A q \in QuestionsOf(p.survey) :
        \A k \in 1..Len(q.data) : q.data[k] >= 0

(***************************************************************************)
(* C3  Every question of a returned Survey has a non-empty text, and no    *)
(* question is keyed by the empty string.                                  *)
(***************************************************************************)
C3_TextNonEmpty ==
    \A p \in returned : \A k \in 1..Len(p.survey) :
        p.survey[k].key # <<>> /\ p.survey[k].value.text # <<>>

(***************************************************************************)
(* C4  A question line whose bracketed type tag, the contents of the first *)
(* bracket pair after the marker, is not one of the four type labels adds  *)
(* no question; a recognized header gives its question the type looked up  *)
(* from that tag and the text after that tag's closing bracket.  Stated on *)
(* the result: every question of a returned Survey stems from a line with  *)
(* a recognized tag, with that tag's type and the text after it.           *)
(***************************************************************************)
\* the contents of the first bracket pair of a line, [ok |-> FALSE] without one
TagOf(line) ==
    LET a == find(line, <<LB>>)
        after == SubSeq(line, a + 1, Len(line))
        b == find(after, <<RB>>)
    IN  IF a = 0 \/ b = 0 THEN [ok |-> FALSE, tag |-> <<>>, rest |-> <<>>]
        ELSE [ok |-> TRUE, tag |-> SubSeq(after, 1, b - 1),
              rest |-> SubSeq(after, b + 1, Len(after))]

\* a question header as the format defines it
IsHeader(line) ==
    /\ startswith(line, Marker)
    /\ TagOf(line).ok
    /\ \E k \in 1..Len(question_types) : question_types[k].label = TagOf(line).tag

HeaderType(line) ==
    question_types[CHOOSE k \in 1..Len(question_types) :
                       question_types[k].label = TagOf(line).tag].type

HeaderText(line) == strip(TagOf(line).rest)

C4_QuestionsFromTaggedHeaders ==
    \A p \in returned : \A q \in QuestionsOf(p.survey) :
        \E k \in 1..Len(StrippedLines(p.text)) :
            LET line == StrippedLines(p.text)[k] IN
            /\ IsHeader(line)
            /\ q.type = HeaderType(line)
            /\ q.text = HeaderText(line)

(***************************************************************************)
(* C5  As claimed: a blank line ends a question's block, so once a blank   *)
(* line has been passed after a header, no option is appended to that      *)
(* header's question.                                                      *)
(***************************************************************************)
\* the question under construction has as many options as its block has
\* option lines before the first blank line
C5_BlankLineEndsBlock ==
    \A c \in DOMAIN frame :
        LET f == frame[c]
            block == BlockWithBlanks(Consumed(f), HeaderIndex(Consumed(f), f.i))
            blanks == {k \in 1..Len(block) : block[k] = <<>>}
            upto == IF blanks = {} THEN Len(block)
                    ELSE (CHOOSE k \in blanks : \A m \in blanks : k <= m) - 1
        IN  (f.current_question # NoQuestion /\ f.current_question[1].type # "fill_in_blank"
             /\ f.pc \in {"inner", "outer"})
            => f.current_question[1] =
                   WithOptions(new_question(f.current_question_text, f.current_question[1].type),
                               SubSeq(block, 1, upto))

(***************************************************************************)
(* C5 (amended)  A blank line does not end a question's block: parse skips *)
(* it, and the option data lines that come after a blank line and before   *)
(* the next question line are appended to the question whose header        *)
(* precedes the blank line, exactly as if the blank line were not there.   *)
(***************************************************************************)
C5_BlankLinesSkipped ==
    \A c \in DOMAIN frame :
        LET f == frame[c]
            block == Block(Consumed(f), HeaderIndex(Consumed(f), f.i))
        IN  (f.current_question # NoQuestion /\ f.current_question[1].type # "fill_in_blank"
             /\ f.pc \in {"inner", "outer"})
            => f.current_question[1] =
                   WithOptions(new_question(f.current_question_text, f.current_question[1].type), block)

\* an option line consumed after a blank line of the same block, and appended
C5_Witness ==
    \E c \in DOMAIN frame :
        LET f == frame[c]
            block == BlockWithBlanks(Consumed(f), HeaderIndex(Consumed(f), f.i))
        IN  /\ f.current_question # NoQuestion
            /\ f.current_question[1].type # "fill_in_blank"
            /\ Len(block) >= 2
            /\ block[1] = <<>>
            /\ re_search_count(block[Len(block)]).ok
            /\ Len(f.current_question[1].options) >= 1

(***************************************************************************)
(* C6  For a question that is not fill-in-blank, a data line whose field   *)
(* after the colon is not an integer is skipped as a whole: the question   *)
(* under construction holds the options and counts of the data lines with  *)
(* an integer field, and of no other line.                                 *)
(***************************************************************************)
\* the field after the first colon: its first blank-separated token
CountField(line) ==
    LET after == lstrip(split_rest(line, ":"))
        blanks == {k \in 1..Len(after) : after[k] \in Whitespace}
        upto == IF blanks = {} THEN Len(after)
                ELSE (CHOOSE k \in blanks : \A m \in blanks : k <= m) - 1
    IN  SubSeq(after, 1, upto)

HasIntegerField(line) == contains(line, <<":">>) /\ AllDigits(CountField(line))

C6_NonIntegerFieldSkipped ==
    \A c \in DOMAIN frame :
        LET f == frame[c]
            block == Block(Consumed(f), HeaderIndex(Consumed(f), f.i))
        IN  (f.current_question # NoQuestion /\ f.current_question[1].type # "fill_in_blank"
             /\ f.pc \in {"inner", "outer"})
            => f.current_question[1] =
                   WithOptions(new_question(f.current_question_text, f.current_question[1].type),
                               SelectSeq(block, HasIntegerField))

(***************************************************************************)
(* C7  For a fill-in-blank question parse consumes at most one data line:  *)
(* the counts are the integer value of the first non-blank line after the  *)
(* header that is no question line (0 when it is no integer), no counts    *)
(* when there is no such line, the options stay empty, and no later line   *)
(* of the block changes them.                                              *)
(***************************************************************************)
C7_FillInBlankOneLine ==
    \A c \in DOMAIN frame :
        LET f == frame[c]
            block == Block(Consumed(f), HeaderIndex(Consumed(f), f.i))
        IN  (f.current_question # NoQuestion /\ f.current_question[1].type = "fill_in_blank"
             /\ f.pc \in {"inner", "outer"})
            => /\ f.current_question[1].options = <<>>
               /\ f.current_question[1].data =
                      IF block = <<>> THEN <<>>
                      ELSE IF int(block[1]).ok THEN <<int(block[1]).val>> ELSE <<0>>

\* a fill-in-blank question whose block holds a second integer line, passed by
\* the cursor, with another value than the first
C7_Witness ==
    \E c \in DOMAIN frame :
        LET f == frame[c]
            block == Block(Consumed(f), HeaderIndex(Consumed(f), f.i))
        IN  /\ f.current_question # NoQuestion
            /\ f.current_question[1].type = "fill_in_blank"
            /\ Len(block) >= 2
            /\ int(block[1]).ok /\ int(block[2]).ok
            /\ int(block[1]).val # int(block[2]).val
            /\ f.current_question[1].data = <<int(block[1]).val>>

(***************************************************************************)
(* C8  When several headers of one document have the same question text    *)
(* after trimming, the returned Survey holds exactly one question under    *)
(* that text, and it is the record built from the last of them.            *)
(***************************************************************************)
\* the record parse builds from the header at line h and its block
BuiltFrom(ls, h) ==
    LET fresh == new_question(question_text_of(ls[h]), lookup_type(ls[h]))
        block == Block(ls, h)
    IN  IF fresh.type = "fill_in_blank"
        THEN [fresh EXCEPT !.data = IF block = <<>> THEN <<>> ELSE fill_data(block[1]).data]
        ELSE WithOptions(fresh, block)

LastOf(S) == CHOOSE h \in S : \A m \in S : m <= h

C8_LastHeaderWins ==
    \A p \in returned :
        LET ls == StrippedLines(p.text)
            heads == {h \in 1..Len(ls) : StartsQuestion(ls[h])}
            text == [h \in heads |-> question_text_of(ls[h])]
        IN
        /\ \A j, k \in 1..Len(p.survey) : p.survey[j].key = p.survey[k].key => j = k
        /\ dict_keys(p.survey) = {text[h] : h \in heads}
        /\ \A k \in 1..Len(p.survey) :
               p.survey[k].value =
                   BuiltFrom(ls, LastOf({h \in heads : text[h] = p.survey[k].key}))

\* a returned Survey of a document with two headers of one text whose records differ
C8_Witness ==
    \E p \in returned :
        LET ls == StrippedLines(p.text) IN
        \E h1, h2 \in 1..Len(ls) :
            /\ h1 < h2
            /\ StartsQuestion(ls[h1]) /\ StartsQuestion(ls[h2])
            /\ question_text_of(ls[h1]) = question_text_of(ls[h2])
            /\ ls[h1] # ls[h2]
            /\ BuiltFrom(ls, h1) # BuiltFrom(ls, h2)
            /\ Len(p.survey) = 1

(***************************************************************************)
(* C9  parse raises no error, and it returns an empty Survey exactly when  *)
(* the document has no line that is a question header with a recognized    *)
(* type tag.                                                               *)
(***************************************************************************)
C9_EmptyIffNoHeader ==
    /\ \A c \in DOMAIN frame : frame[c].pc # "raised"
    /\ \A p \in returned :
           (p.survey = <<>>) <=>
               (\A k \in 1..Len(StrippedLines(p.text)) : ~IsHeader(StrippedLines(p.text)[k]))

(***************************************************************************)
(* C10  parse is deterministic: all calls on one text return equal         *)
(* Surveys, whichever analyzer they run on and whatever it parsed before.  *)
(***************************************************************************)
C10_Deterministic ==
    \A p, q \in returned : p.text = q.text => p.survey = q.survey

\* the second call of a comparison run has returned, on an analyzer that holds
\* the questions of another text, a text that had been parsed before
C10_Witness ==
    /\ Len(frame) = 2
    /\ frame[2].pc = "returned"
    /\ self.questions # <<>>
    /\ uploads.md # uploads.comparison
    /\ \E p \in returned : p.text = frame[2].md_content /\ p.again /\ p.survey # <<>>

(***************************************************************************)
(* The summary and the statistics of one question (single-file analysis).  *)
(***************************************************************************)
MaxRatingLines == 5  \* data lines of the rating block of a document of SpecView

\* Python's max(a, b) and sum(xs)
max(a, b) == IF b > a THEN b ELSE a

RECURSIVE sum(_)
sum(xs) == IF xs = <<>> THEN 0 ELSE Head(xs) + sum(Tail(xs))

\* Python's None as a result, and a result that is not None
None == <<>>

RECURSIVE summary_loop(_, _)
\* lines 427-437: the loop over self.questions.values(), s the three counters
summary_loop(items, s) ==
    IF items = <<>> THEN s
    ELSE LET q_info == Head(items).value IN
         summary_loop(Tail(items),
             IF q_info.type = "fill_in_blank"
             THEN [s EXCEPT !.skipped_questions = @ + 1,
                            !.total_responses = IF q_info.data # <<>>
                                                THEN max(@, q_info.data[1]) ELSE @]
             ELSE [s EXCEPT !.analyzed_questions = @ + 1,
                            !.total_responses = IF q_info.data # <<>>
                                                THEN max(@, sum(q_info.data)) ELSE @])

\* variant of generate_summary_report: without the early return of lines 420-421
generate_summary_report_always(analyzer) ==
    Some(summary_loop(analyzer.questions,
                      [total_responses |-> 0, analyzed_questions |-> 0,
                       skipped_questions |-> 0]) @@ [completeness |-> "100.0%"])

\* lines 418-444
generate_summary_report(analyzer) ==
    IF analyzer.questions = <<>> THEN None
    ELSE Some(summary_loop(analyzer.questions,
                           [total_responses |-> 0, analyzed_questions |-> 0,
                            skipped_questions |-> 0]) @@ [completeness |-> "100.0%"])

RECURSIVE weighted_sums_all_counts(_, _, _)
\* variant of weighted_sums: the count of a pair whose option is no integer
\* still enters total_count
weighted_sums_all_counts(options, data, s) ==
    IF options = <<>> \/ data = <<>> THEN s
    ELSE LET score == int(Head(options)) IN
         weighted_sums_all_counts(Tail(options), Tail(data),
             [total_score |-> s.total_score + (IF score.ok THEN score.val * Head(data) ELSE 0),
              total_count |-> s.total_count + Head(data)])

RECURSIVE weighted_sums(_, _, _)
\* lines 1268-1276: the loop over zip(options, data); a pair whose option is
\* no integer is passed over by the except branch
weighted_sums(options, data, s) ==
    IF options = <<>> \/ data = <<>> THEN s
    ELSE LET score == int(Head(options)) IN
         weighted_sums(Tail(options), Tail(data),
             IF score.ok
             THEN [total_score |-> s.total_score + score.val * Head(data),
                   total_count |-> s.total_count + Head(data)]
             ELSE s)

\* variant of format_2f: the quotient is rounded up to the next hundredth
format_2f_up(num, den) ==
    LET h == (100 * num) \div den
    IN  IF 100 * num = h * den THEN {h} ELSE {h + 1}

\* f"{num / den:.2f}" for den > 0, as a number of hundredths.  The quotient is
\* rounded to the nearest hundredth; when it lies exactly halfway between two,
\* the digit printed depends on the binary value of the float, and both
\* neighbours are given.
format_2f(num, den) ==
    LET h == (100 * num) \div den
        r == 100 * num - h * den
    IN  IF 2 * r < den THEN {h}
        ELSE IF 2 * r > den THEN {h + 1}
        ELSE {h, h + 1}

\* lines 309-321 (and 194-198, 258-262): whether the chart of a question exists
has_figure(q_info) ==
    /\ q_info.options # <<>> /\ q_info.data # <<>>
    /\ q_info.type = "rating" =>
           \E k \in 1..Len(q_info.options) :
               k <= Len(q_info.data) /\ int(q_info.options[k]).ok /\ q_info.data[k] > 0

\* a data line "label: count"
DataLine(label, count) == label \o <<":", " ">> \o count

\* the data lines a rating block is made of: the five of the example survey,
\* one whose label is no integer and one whose count is zero
RatingPool ==
    << DataLine(<<"1">>, <<"5", "2">>),
       DataLine(<<"2">>, <<"1", "1">>),
       DataLine(<<"3">>, <<"1", "0", "8">>),
       DataLine(<<"4">>, <<"1", "2", "4">>),
       DataLine(<<"5">>, <<"3", "0", "7">>),
       DataLine(<<"A">>, <<"5">>),
       DataLine(<<"3">>, <<"0">>) >>

RECURSIVE pick(_, _)
\* the lines of pool at the positions S, in the order of pool
pick(pool, S) ==
    IF S = {} THEN <<>>
    ELSE LET m == CHOOSE k \in S : \A j \in S : j <= k
         IN  Append(pick(pool, S \ {m}), pool[m])

\* what may precede the questions: nothing, or a question line whose tag is no type
ViewPrefixes == { <<>>, <<QLine(Other, <<"c">>)>> }

\* a fill-in-blank block, or a single-choice block, or neither
ViewFirstBlocks ==
    LET header == QLine(Fill, <<"a">>) IN
    { <<>>,
      <<header>>,
      <<header, <<"3", "7">>>>,
      <<header, <<"-", "5">>>>,
      <<header, <<>>, <<"3", "7">>>>,
      <<header, <<"3", "7">>, <<"x">>>>,
      <<QLine(Single, <<"d">>), DataLine(<<"A">>, <<"5">>), DataLine(<<"B">>, <<"1", "2">>)>> }

\* a rating block: the header, with or without a text, and up to
\* MaxRatingLines lines of RatingPool; or none
ViewRatingBlocks ==
    {<<>>} \cup
    { <<QLine(Rating, text)>> \o pick(RatingPool, S) :
          text \in {<<"b">>, <<>>},
          S \in {T \in SUBSET (1..Len(RatingPool)) : Cardinality(T) <= MaxRatingLines} }

\* the documents of SpecView; ''.split('\n') is one empty line
ViewTexts ==
    { LET ls == p \o b \o r IN join(IF ls = <<>> THEN << <<>> >> ELSE ls) :
          p \in ViewPrefixes, b \in ViewFirstBlocks, r \in ViewRatingBlocks }

InitView ==
    /\ mode = "single"
    /\ \E t \in ViewTexts : uploads = [md |-> t, comparison |-> <<>>]
    /\ self = new_analyzer
    /\ frame = frames_of(mode)
    /\ returned = {}
    /\ out = NoOut

\* the parse calls of this run of main() have been made and stored
parsed == \A c \in DOMAIN frame : frame[c].pc = "assigned"

\* a call of generate_summary_report (main: line 1214)
Summary ==
    /\ parsed
    /\ out' = [op |-> "summary", summary |-> generate_summary_report(self)]
    /\ UNCHANGED <<uploads, mode, self, frame, returned>>

\* lines 1229-1279: the statistics main() shows for the selected question;
\* average is None when line 1279 is not reached
ShowStatistics(selected_question) ==
    /\ parsed /\ mode = "single"
    /\ selected_question \in dict_keys(self.questions)
    /\ LET question_info == dict_get(self.questions, selected_question)
           fig == selected_question # <<>> /\ has_figure(question_info)
           s == weighted_sums(question_info.options, question_info.data,
                              [total_score |-> 0, total_count |-> 0])
           averaged == /\ fig
                       /\ question_info.type = "rating" /\ question_info.data # <<>>
                       /\ s.total_count > 0
       IN  /\ question_info.type # "fill_in_blank"
           /\ \E text \in IF averaged THEN format_2f(s.total_score, s.total_count) ELSE {0} :
                  out' = [op |-> "statistics", question |-> selected_question,
                          chart |-> fig,
                          average |-> IF averaged THEN Some(text) ELSE None]
    /\ UNCHANGED <<uploads, mode, self, frame, returned>>

\* the keys a question of a document of SpecView can have
ViewKeys == { <<"a">>, <<"b">>, <<"d">>, <<>> }

NextView ==
    \/ Next
    \/ Summary
    \/ \E q \in ViewKeys : ShowStatistics(q)

\* one run of main() on one uploaded file, with the summary and the statistics
SpecView == InitView /\ [][NextView]_vars

(***************************************************************************)
(* Claims about the summary and the weighted rating average (SpecView).    *)
(***************************************************************************)
\* the positions of the questions of a survey that are fill-in-blank ones
FillInBlankAt(survey) == {k \in 1..Len(survey) : survey[k].value.type = "fill_in_blank"}

\* the value a question offers as total of the responses: its single count
\* for a fill-in-blank question, the sum of its counts otherwise
Candidate(question) ==
    IF question.type = "fill_in_blank"
    THEN IF question.data = <<>> THEN 0 ELSE question.data[1]
    ELSE sum(question.data)

\* C11: the summary of a non-empty survey counts the fill-in-blank questions
\* as skipped and all others as analyzed, and its total of responses is the
\* maximum of the candidate values of the questions.
C11_SummaryCountsAndMaximum ==
    (out.op = "summary" /\ self.questions # <<>>) =>
        /\ out.summary # None
        /\ LET survey == self.questions
               s == out.summary[1]
           IN  /\ s.skipped_questions = Cardinality(FillInBlankAt(survey))
               /\ s.analyzed_questions = Len(survey) - Cardinality(FillInBlankAt(survey))
               /\ \A k \in 1..Len(survey) : Candidate(survey[k].value) <= s.total_responses
               /\ \E k \in 1..Len(survey) : Candidate(survey[k].value) = s.total_responses

RECURSIVE SumOver(_, _)
\* the sum of the values of the function f over the set S of arguments
SumOver(S, f) ==
    IF S = {} THEN 0
    ELSE LET k == CHOOSE j \in S : TRUE IN f[k] + SumOver(S \ {k}, f)

\* the positions of the (option, count) pairs whose option is an integer
IntegerPairs(question) ==
    {k \in 1..Len(question.options) : int(question.options[k]).ok}

\* numerator and denominator of the weighted average over these pairs
WeightedScore(question) ==
    SumOver(IntegerPairs(question),
            [k \in 1..Len(question.options) |->
                int(question.options[k]).val * question.data[k]])

WeightedCount(question) ==
    SumOver(IntegerPairs(question), [k \in 1..Len(question.options) |-> question.data[k]])

\* h hundredths is num / den rounded to two decimals
RoundsTo(num, den, h) ==
    LET d == 100 * num - den * h IN 2 * d <= den /\ 2 * d >= 0 - den

\* C13: the average shown for a rating question is sum(rating * count) /
\* sum(count) over exactly the pairs whose option is an integer; no average is
\* shown when no pair is such or when the counts of these pairs sum to zero.
C13_AverageOverIntegerPairs ==
    (out.op = "statistics"
        /\ dict_get(self.questions, out.question).type = "rating") =>
        LET question == dict_get(self.questions, out.question)
            num == WeightedScore(question)
            den == WeightedCount(question)
        IN  /\ (IntegerPairs(question) = {} \/ den = 0) => out.average = None
            /\ out.average # None => den > 0 /\ RoundsTo(num, den, out.average[1])

\* an average is shown for a question that has a pair with a label that is no
\* integer and a pair with the count zero
C13_Witness ==
    /\ out.op = "statistics" /\ out.average # None
    /\ LET question == dict_get(self.questions, out.question)
       IN  /\ \E k \in 1..Len(question.options) : ~int(question.options[k]).ok
           /\ \E k \in 1..Len(question.options) : question.data[k] = 0

\* the rating question of the example survey is the one selected (a question
\* can only be selected under a text that is not empty, line 1240)
ExampleRatingShown ==
    /\ out.op = "statistics" /\ out.question # <<>>
    /\ LET question == dict_get(self.questions, out.question)
       IN  /\ question.type = "rating"
           /\ question.options = << <<"1">>, <<"2">>, <<"3">>, <<"4">>, <<"5">> >>
           /\ question.data = <<52, 11, 108, 124, 307>>

\* C14 as stated: the average of the example rating question is shown as 4.10.
C14_ExampleAverageIs410 ==
    ExampleRatingShown => out.average = Some(410)

\* C14, amended: the average of the example rating question, 2429 / 602, is
\* shown as 4.03.
C14_ExampleAverageIs403 ==
    ExampleRatingShown => out.average = Some(403)

C14_Witness ==
    ExampleRatingShown /\ out.average # None

(***************************************************************************)
(* Matching the questions of two surveys (comparison analysis).            *)
(* A similarity is the fraction [num, den] of the division of line 485;    *)
(* the 0 of line 480 is the fraction 0 / 1.                                *)
(***************************************************************************)
MaxTextLen == 2          \* characters of a text of SpecSimilarity
MaxCompareQuestions == 2 \* question blocks of the first document of SpecCompare

\* jieba.cut(text), lines 476-477.  The segmenter is a library outside the
\* source; it is modelled by its finest segmentation, one token per
\* character, and yields nothing for the empty text.
cut(text) == [k \in 1..Len(text) |-> <<text[k]>>]

\* set(xs) of a list
set(xs) == {xs[k] : k \in 1..Len(xs)}

\* variant of calculate_text_similarity: the intersection is divided by the
\* size of the first set
calculate_text_similarity_first(text1, text2) ==
    LET words1 == set(cut(text1))
        words2 == set(cut(text2))
    IN  IF words1 = {} \/ words2 = {} THEN [num |-> 0, den |-> 1]
        ELSE [num |-> Cardinality(words1 \cap words2), den |-> Cardinality(words1)]

\* lines 473-485
calculate_text_similarity(text1, text2) ==
    LET words1 == set(cut(text1))
        words2 == set(cut(text2))
        intersection == words1 \cap words2
        union == words1 \cup words2
    IN  IF words1 = {} \/ words2 = {} THEN [num |-> 0, den |-> 1]
        ELSE [num |-> Cardinality(intersection), den |-> Cardinality(union)]

\* the order of two similarities, as floats: a > b and a = b
greater(a, b) == a.num * b.den > b.num * a.den
equal(a, b) == a.num * b.den = b.num * a.den

\* the literal 0.6 of line 459
threshold == [num |-> 3, den |-> 5]

\* variant of above_threshold: a similarity of 0.6 passes
above_threshold_or_equal(similarity) ==
    greater(similarity, threshold) \/ equal(similarity, threshold)

\* line 459
above_threshold(similarity) == greater(similarity, threshold)

\* variant of comparable: the types are equal
comparable_same_type(q1_info, q2_info) == q1_info.type = q2_info.type

\* line 456
comparable(q1_info, q2_info) ==
    q1_info.type = q2_info.type /\ q1_info.type # "fill_in_blank"

RECURSIVE matching_loop(_, _, _, _)
\* lines 453-467: the two nested loops over the items of both dicts, from the
\* items (k1, k2) on; the pairs appended, in the order of the appends
matching_loop(questions, comparison_questions, k1, k2) ==
    IF k1 > Len(questions) THEN <<>>
    ELSE IF k2 > Len(comparison_questions)
    THEN matching_loop(questions, comparison_questions, k1 + 1, 1)
    ELSE LET q1 == questions[k1]
             q2 == comparison_questions[k2]
             similarity == calculate_text_similarity(q1.key, q2.key)
             rest == matching_loop(questions, comparison_questions, k1, k2 + 1)
         IN  IF comparable(q1.value, q2.value) /\ above_threshold(similarity)
             THEN << [question1 |-> q1.key, question2 |-> q2.key,
                      type |-> q1.value.type, similarity |-> similarity,
                      data1 |-> q1.value, data2 |-> q2.value] >> \o rest
             ELSE rest

RECURSIVE insert_before_equal(_, _)
\* p put into the sorted list ps before the first pair that is not greater
insert_before_equal(ps, p) ==
    IF ps = <<>> THEN <<p>>
    ELSE IF greater(Head(ps).similarity, p.similarity)
    THEN <<Head(ps)>> \o insert_before_equal(Tail(ps), p)
    ELSE <<p>> \o ps

RECURSIVE sort_reverse_unstable(_)
\* variant of sort_reverse: pairs of equal similarity end in reverse order
sort_reverse_unstable(ps) ==
    IF ps = <<>> THEN <<>>
    ELSE insert_before_equal(sort_reverse_unstable(SubSeq(ps, 1, Len(ps) - 1)), ps[Len(ps)])

RECURSIVE insert_after_equal(_, _)
\* p put into the sorted list ps after the last pair that is not smaller
insert_after_equal(ps, p) ==
    IF ps = <<>> THEN <<p>>
    ELSE IF greater(p.similarity, Head(ps).similarity)
    THEN <<p>> \o ps
    ELSE <<Head(ps)>> \o insert_after_equal(Tail(ps), p)

RECURSIVE sort_reverse(_)
\* line 469: list.sort(key = similarity, reverse = True); the sort is stable,
\* also under reverse
sort_reverse(ps) ==
    IF ps = <<>> THEN <<>>
    ELSE insert_after_equal(sort_reverse(SubSeq(ps, 1, Len(ps) - 1)), ps[Len(ps)])

\* lines 446-471
find_matching_questions(analyzer) ==
    IF analyzer.questions = <<>> \/ analyzer.comparison_questions = <<>> THEN <<>>
    ELSE sort_reverse(matching_loop(analyzer.questions, analyzer.comparison_questions, 1, 1))

\* the texts of SpecSimilarity: up to MaxTextLen characters
Characters == {"a", "b", "c"}
SimilarityTexts == UNION {[1..n -> Characters] : n \in 0..MaxTextLen}

InitSimilarity ==
    /\ mode = "compare"
    /\ uploads = [md |-> <<>>, comparison |-> <<>>]
    /\ self = new_analyzer
    /\ frame = frames_of(mode)
    /\ returned = {}
    /\ \E text1 \in SimilarityTexts, text2 \in SimilarityTexts :
           out = [op |-> "call", text1 |-> text1, text2 |-> text2]

\* a call of calculate_text_similarity with the two texts
Similarity ==
    /\ out.op = "call"
    /\ out' = [op |-> "similarity", text1 |-> out.text1, text2 |-> out.text2,
               similarity |-> calculate_text_similarity(out.text1, out.text2)]
    /\ UNCHANGED <<uploads, mode, self, frame, returned>>

NextSimilarity == Similarity

\* calculate_text_similarity as a function of two texts
SpecSimilarity == InitSimilarity /\ [][NextSimilarity]_vars

\* C18: the similarity of two texts with the token sets A and B is
\* |A \cap B| / |A \cup B| and lies in [0, 1]; it is 1 when A = B is not
\* empty, 0 when A and B share no token or one of them is empty, and the same
\* with the arguments exchanged.
C18_JaccardOfTokenSets ==
    out.op = "similarity" =>
        LET A == set(cut(out.text1))
            B == set(cut(out.text2))
            s == out.similarity
        IN  /\ s.den > 0 /\ 0 <= s.num /\ s.num <= s.den
            /\ s.num * Cardinality(A \cup B) = Cardinality(A \cap B) * s.den
            /\ (A = B /\ A # {}) => s.num = s.den
            /\ (A \cap B = {} \/ A = {} \/ B = {}) => s.num = 0
            /\ equal(s, calculate_text_similarity(out.text2, out.text1))

\* two token sets of different sizes that share a token
C18_Witness ==
    /\ out.op = "similarity"
    /\ LET A == set(cut(out.text1))
           B == set(cut(out.text2))
       IN  A \cap B # {} /\ Cardinality(A) > Cardinality(B)

(***************************************************************************)
(* The comparison of a matched pair: the options of both sides aligned.    *)
(***************************************************************************)
\* xs.index(x) for x in xs, 1-based
index(xs, x) == CHOOSE k \in 1..Len(xs) : xs[k] = x /\ \A j \in 1..(k - 1) : xs[j] # x

\* variant of counts_of: the count is taken at the option's position in all_options
counts_of_by_position(all_options, data) ==
    [k \in 1..Len(all_options) |-> IF k <= Len(data.data) THEN data.data[k] ELSE 0]

\* lines 510-521, 607-618: the counts of one side, option by option
counts_of(all_options, data) ==
    [k \in 1..Len(all_options) |->
        IF all_options[k] \in set(data.options)
        THEN data.data[index(data.options, all_options[k])]
        ELSE 0]

\* list(set(xs)), lines 505 and 602: the elements once each; the order is
\* that of the set's hash table and is any order
lists_of_set(xs) ==
    LET S == set(xs)
    IN  {l \in [1..Cardinality(S) -> S] : \A j, k \in 1..Cardinality(S) : l[j] = l[k] => j = k}

\* lines 664-685: whether create_rating_comparison has ratings on both sides
has_ratings(data) ==
    \E k \in 1..Len(data.options) :
        k <= Len(data.data) /\ int(data.options[k]).ok /\ data.data[k] > 0

\* the question blocks the first document of SpecCompare is made of
CompareBlocks ==
    { <<QLine(Single, <<"a", "b", "c", "d">>), DataLine(<<"A">>, <<"1", "0">>)>>,
      <<QLine(Single, <<"a", "b", "c">>), DataLine(<<"A">>, <<"1", "0">>),
        DataLine(<<"B">>, <<"3">>)>>,
      <<QLine(Single, <<"a", "b", "c", "e">>), DataLine(<<"B">>, <<"2", "0">>)>>,
      <<QLine(Single, <<>>), DataLine(<<"A">>, <<"5">>)>>,
      <<QLine(Multi, <<"a", "b", "c", "d">>), DataLine(<<"A">>, <<"5">>), <<>>,
        DataLine(<<"B">>, <<"1", "2">>)>>,
      <<QLine(Fill, <<"a", "b", "c", "d", "e">>), <<"3", "7">>, <<"x">>>>,
      <<QLine(Rating, <<"a", "b", "c", "d">>), DataLine(<<"1">>, <<"5", "2">>)>>,
      <<QLine(Other, <<"c">>)>> }

RECURSIVE concat(_)
\* the lines of a sequence of blocks
concat(blocks) == IF blocks = <<>> THEN <<>> ELSE Head(blocks) \o concat(Tail(blocks))

\* ''.split('\n') is one empty line
text_of(ls) == join(IF ls = <<>> THEN << <<>> >> ELSE ls)

\* the first documents of SpecCompare: up to MaxCompareQuestions blocks
CompareTexts ==
    { text_of(concat(bs)) :
          bs \in UNION {[1..n -> CompareBlocks] : n \in 0..MaxCompareQuestions} }

\* the second documents of SpecCompare, of at most two questions
ComparisonTexts ==
    { text_of(<<>>),
      text_of(<<QLine(Single, <<"a", "b", "c", "d">>), DataLine(<<"B">>, <<"2", "0">>)>>),
      text_of(<<QLine(Single, <<"a", "b", "c", "d">>), DataLine(<<"A">>, <<"1">>),
                DataLine(<<"A">>, <<"2">>),
                QLine(Single, <<"a", "b", "c">>), DataLine(<<"B">>, <<"2", "0">>),
                DataLine(<<"C">>, <<"1">>)>>),
      text_of(<<QLine(Single, <<>>), DataLine(<<"A">>, <<"5">>)>>),
      text_of(<<QLine(Single, <<"a", "b", "c", "d">>), DataLine(<<"A">>, <<"0">>)>>),
      text_of(<<QLine(Multi, <<"a", "b", "c", "d">>), DataLine(<<"B">>, <<"7">>),
                DataLine(<<"C">>, <<"0">>),
                QLine(Fill, <<"a", "b", "c", "d", "e">>), <<"1", "2">>>>),
      text_of(<<QLine(Rating, <<"a", "b", "c", "d">>), DataLine(<<"1">>, <<"3">>),
                QLine(Single, <<"a", "b", "c", "e">>), DataLine(<<"A">>, <<"1">>)>>) }

InitCompare ==
    /\ mode = "compare"
    /\ \E t1 \in CompareTexts, t2 \in ComparisonTexts :
           uploads = [md |-> t1, comparison |-> t2]
    /\ self = new_analyzer
    /\ frame = frames_of(mode)
    /\ returned = {}
    /\ out = NoOut

\* a call of find_matching_questions (main: line 873)
FindMatches ==
    /\ parsed /\ mode = "compare"
    /\ out' = [op |-> "matches", matching_pairs |-> find_matching_questions(self)]
    /\ UNCHANGED <<uploads, mode, self, frame, returned>>

\* lines 525-526: the denominator of the percentages of the single-choice chart
chart_total(counts) == IF sum(counts) > 0 THEN sum(counts) ELSE 1

\* lines 945-946 and 1056-1057: the denominator of the percentages of the
\* detail table and of the CSV rows
table_total(data) == IF data.data # <<>> THEN sum(data.data) ELSE 1

\* lines 933-955 and 1044-1073: the rows of a choice pair, one per option of
\* all_options; a division by a total of 0 raises ZeroDivisionError
rows_of(all_options, data1, data2) ==
    [total1 |-> table_total(data1), total2 |-> table_total(data2),
     rows |-> Len(all_options),
     raised |-> all_options # <<>> /\ (table_total(data1) = 0 \/ table_total(data2) = 0)]

\* no rows: the pair is a rating pair
NoRows == [total1 |-> 1, total2 |-> 1, rows |-> 0, raised |-> FALSE]

\* lines 869-955 and 487-500: the comparison chart of the matched pair the
\* user selected and the detail table under it; for a choice question the
\* chart is that of lines 502-528 or 599-618
CompareViz(selected_pair_index) ==
    /\ parsed /\ mode = "compare"
    /\ self.questions # <<>> /\ self.comparison_questions # <<>>
    /\ LET matching_pairs == find_matching_questions(self) IN
       /\ selected_pair_index \in 1..Len(matching_pairs)
       /\ LET matching_pair == matching_pairs[selected_pair_index]
              data1 == matching_pair.data1
              data2 == matching_pair.data2
          IN  IF matching_pair.type \in {"single_choice", "multiple_choice"}
              THEN \E all_options \in lists_of_set(data1.options \o data2.options) :
                       out' = [op |-> "comparison", matching_pair |-> matching_pair,
                               chart |-> TRUE,
                               all_options |-> all_options,
                               counts1 |-> counts_of(all_options, data1),
                               counts2 |-> counts_of(all_options, data2),
                               totals |-> IF matching_pair.type = "single_choice"
                                          THEN Some([total1 |-> chart_total(counts_of(all_options, data1)),
                                                     total2 |-> chart_total(counts_of(all_options, data2))])
                                          ELSE None,
                               table |-> rows_of(all_options, data1, data2)]
              ELSE out' = [op |-> "comparison", matching_pair |-> matching_pair,
                           chart |-> has_ratings(data1) /\ has_ratings(data2),
                           all_options |-> <<>>, counts1 |-> <<>>, counts2 |-> <<>>,
                           totals |-> None, table |-> NoRows]
    /\ UNCHANGED <<uploads, mode, self, frame, returned>>

\* lines 1029-1160: the CSV export of all matched pairs, after the button of
\* line 1029; tables holds the rows of every choice pair, in order
ExportCSV ==
    /\ parsed /\ mode = "compare"
    /\ self.questions # <<>> /\ self.comparison_questions # <<>>
    /\ LET matching_pairs == find_matching_questions(self)
           tables == [k \in 1..Len(matching_pairs) |->
                         IF matching_pairs[k].type \in {"single_choice", "multiple_choice"}
                         THEN rows_of(CHOOSE l \in lists_of_set(matching_pairs[k].data1.options
                                                       \o matching_pairs[k].data2.options) : TRUE,
                                      matching_pairs[k].data1, matching_pairs[k].data2)
                         ELSE NoRows]
       IN  /\ matching_pairs # <<>>
           /\ out' = [op |-> "export", matching_pairs |-> matching_pairs,
                      tables |-> tables,
                      raised |-> \E k \in 1..Len(tables) : tables[k].raised]
    /\ UNCHANGED <<uploads, mode, self, frame, returned>>

\* the positions a matched pair can have: the second document has at most
\* two questions
PairIndexes == 1..(MaxCompareQuestions * 2)

NextCompare ==
    \/ Next
    \/ FindMatches
    \/ \E k \in PairIndexes : CompareViz(k)
    \/ ExportCSV

\* one run of main() on two uploaded files, with the matching and the charts
SpecCompare == InitCompare /\ [][NextCompare]_vars

(***************************************************************************)
(* Claims about the matching and the comparison (SpecCompare).             *)
(***************************************************************************)
\* the pairs of positions (k1, k2) of a question of each survey
Crossed == (1..Len(self.questions)) \X (1..Len(self.comparison_questions))

\* the Jaccard similarity of two texts is above 0.6: 5 |A \cap B| > 3 |A \cup B|
JaccardAbove(text1, text2) ==
    LET A == {text1[k] : k \in 1..Len(text1)}
        B == {text2[k] : k \in 1..Len(text2)}
    IN  A # {} /\ B # {} /\ 5 * Cardinality(A \cap B) > 3 * Cardinality(A \cup B)

\* ... is exactly 0.6
JaccardAt(text1, text2) ==
    LET A == {text1[k] : k \in 1..Len(text1)}
        B == {text2[k] : k \in 1..Len(text2)}
    IN  A # {} /\ B # {} /\ 5 * Cardinality(A \cap B) = 3 * Cardinality(A \cup B)

\* the questions at (k1, k2) have the same type, which is not fill-in-blank
SameChoiceType(c) ==
    LET q1 == self.questions[c[1]].value
        q2 == self.comparison_questions[c[2]].value
    IN  q1.type = q2.type /\ q1.type # "fill_in_blank"

\* the pair p joins the questions at (k1, k2)
Joins(p, c) ==
    /\ p.question1 = self.questions[c[1]].key
    /\ p.question2 = self.comparison_questions[c[2]].key
    /\ p.data1 = self.questions[c[1]].value
    /\ p.data2 = self.comparison_questions[c[2]].value

\* C15: every pair find_matching_questions returns joins a question of the
\* first survey with one of the second of the same type, never fill-in-blank,
\* and carries that type.
C15_PairsOfOneComparableType ==
    out.op = "matches" =>
        \A n \in 1..Len(out.matching_pairs) :
            LET p == out.matching_pairs[n] IN
            /\ p.type # "fill_in_blank"
            /\ \E c \in Crossed :
                   /\ Joins(p, c)
                   /\ self.questions[c[1]].value.type = p.type
                   /\ self.comparison_questions[c[2]].value.type = p.type

\* pairs are returned while two similar fill-in-blank questions and two
\* similar questions of different types are left out
C15_Witness ==
    /\ out.op = "matches" /\ out.matching_pairs # <<>>
    /\ \E c \in Crossed :
           /\ self.questions[c[1]].value.type = "fill_in_blank"
           /\ self.comparison_questions[c[2]].value.type = "fill_in_blank"
           /\ JaccardAbove(self.questions[c[1]].key, self.comparison_questions[c[2]].key)
    /\ \E c \in Crossed :
           /\ self.questions[c[1]].value.type # self.comparison_questions[c[2]].value.type
           /\ JaccardAbove(self.questions[c[1]].key, self.comparison_questions[c[2]].key)

\* C16: a pair is returned if and only if its questions have the same type,
\* not fill-in-blank, and a similarity strictly above 0.6; each such pair is
\* returned once.
C16_PairsAreTheQualifying ==
    out.op = "matches" =>
        LET ps == out.matching_pairs
            qualifying == {c \in Crossed :
                              /\ SameChoiceType(c)
                              /\ JaccardAbove(self.questions[c[1]].key,
                                              self.comparison_questions[c[2]].key)}
        IN  /\ Len(ps) = Cardinality(qualifying)
            /\ \A c \in qualifying : \E n \in 1..Len(ps) : Joins(ps[n], c)
            /\ \A n \in 1..Len(ps) : \E c \in qualifying : Joins(ps[n], c)

\* two questions at exactly 0.6 are left out while one question of the first
\* survey is in two pairs
C16_Witness ==
    /\ out.op = "matches"
    /\ \E c \in Crossed :
           /\ SameChoiceType(c)
           /\ JaccardAt(self.questions[c[1]].key, self.comparison_questions[c[2]].key)
    /\ \E m, n \in 1..Len(out.matching_pairs) :
           /\ m # n
           /\ out.matching_pairs[m].question1 = out.matching_pairs[n].question1

\* the position in the loops of lines 453-454 at which the pair p was met
Encounter(p) == CHOOSE c \in Crossed : Joins(p, c)
Earlier(c, d) == c[1] < d[1] \/ (c[1] = d[1] /\ c[2] < d[2])

\* C17: the pairs are returned by descending similarity, and pairs of equal
\* similarity in the order the loops met them.
C17_DescendingAndStable ==
    out.op = "matches" =>
        \A m, n \in 1..Len(out.matching_pairs) :
            m < n =>
                LET p == out.matching_pairs[m]
                    q == out.matching_pairs[n]
                IN  /\ p.similarity.num * q.similarity.den >= q.similarity.num * p.similarity.den
                    /\ p.similarity.num * q.similarity.den = q.similarity.num * p.similarity.den
                           => Earlier(Encounter(p), Encounter(q))

\* two pairs of equal similarity, and two pairs the sort has exchanged
C17_Witness ==
    /\ out.op = "matches"
    /\ \E m, n \in 1..Len(out.matching_pairs) :
           /\ m < n
           /\ equal(out.matching_pairs[m].similarity, out.matching_pairs[n].similarity)
    /\ \E m, n \in 1..Len(out.matching_pairs) :
           /\ m < n
           /\ Earlier(Encounter(out.matching_pairs[n]), Encounter(out.matching_pairs[m]))

\* C19: when both surveys have a single-choice question of the same text,
\* find_matching_questions returns the pair of the two, with similarity 1.
C19_SameTextMatches ==
    out.op = "matches" =>
        \A c \in Crossed :
            (/\ self.questions[c[1]].value.type = "single_choice"
             /\ self.comparison_questions[c[2]].value.type = "single_choice"
             /\ self.questions[c[1]].key = self.comparison_questions[c[2]].key)
            => \E n \in 1..Len(out.matching_pairs) :
                   /\ Joins(out.matching_pairs[n], c)
                   /\ out.matching_pairs[n].similarity.num = out.matching_pairs[n].similarity.den

\* the counts a question records for a label
CountsFor(question, label) ==
    {question.data[j] : j \in {i \in 1..Len(question.options) : question.options[i] = label}}

\* C20: the aligned options of two choice questions are the union of their
\* options, each label once; both count lists are as long, and hold at each
\* position the count of that side for the label, 0 when the side lacks it.
C20_AlignedOptions ==
    (out.op = "comparison"
        /\ out.matching_pair.type \in {"single_choice", "multiple_choice"}) =>
        LET q1 == out.matching_pair.data1
            q2 == out.matching_pair.data2
            options == out.all_options
        IN  /\ {options[k] : k \in 1..Len(options)} =
                   {q1.options[k] : k \in 1..Len(q1.options)} \cup
                   {q2.options[k] : k \in 1..Len(q2.options)}
            /\ \A j, k \in 1..Len(options) : options[j] = options[k] => j = k
            /\ Len(out.counts1) = Len(options) /\ Len(out.counts2) = Len(options)
            /\ \A k \in 1..Len(options) :
                   /\ out.counts1[k] \in
                          IF CountsFor(q1, options[k]) = {} THEN {0}
                          ELSE CountsFor(q1, options[k])
                   /\ out.counts2[k] \in
                          IF CountsFor(q2, options[k]) = {} THEN {0}
                          ELSE CountsFor(q2, options[k])

\* a label of the first side only, one of the second side only, one of both
C20_Witness ==
    /\ out.op = "comparison"
    /\ out.matching_pair.type \in {"single_choice", "multiple_choice"}
    /\ LET q1 == out.matching_pair.data1
           q2 == out.matching_pair.data2
       IN  \E a, b, c \in 1..Len(out.all_options) :
               /\ CountsFor(q1, out.all_options[a]) # {}
               /\ CountsFor(q2, out.all_options[a]) = {}
               /\ out.counts1[a] > 0 /\ out.counts2[a] = 0
               /\ CountsFor(q1, out.all_options[b]) = {}
               /\ CountsFor(q2, out.all_options[b]) # {}
               /\ CountsFor(q1, out.all_options[c]) # {}
               /\ CountsFor(q2, out.all_options[c]) # {}

\* C21: no percentage of a matched pair is a division by zero: a side whose
\* total is 0 is divided by 1, in the chart, in the detail table and in the
\* rows of the CSV export.
C21_NoDivisionByZero ==
    /\ (out.op = "comparison" /\ out.totals # None) =>
           /\ out.totals[1].total1 # 0 /\ out.totals[1].total2 # 0
           /\ sum(out.counts1) = 0 => out.totals[1].total1 = 1
           /\ sum(out.counts2) = 0 => out.totals[1].total2 = 1
    /\ (out.op = "comparison"
           /\ out.matching_pair.type \in {"single_choice", "multiple_choice"}) =>
           /\ ~out.table.raised
           /\ sum(out.matching_pair.data1.data) = 0 => out.table.total1 = 1
           /\ sum(out.matching_pair.data2.data) = 0 => out.table.total2 = 1
    /\ out.op = "export" =>
           /\ ~out.raised
           /\ \A k \in 1..Len(out.tables) :
                  out.tables[k].total1 # 0 /\ out.tables[k].total2 # 0

(***************************************************************************)
(* All operations on the parsed surveys, in either mode.                   *)
(***************************************************************************)
InitOperations ==
    /\ mode \in {"single", "compare"}
    /\ \E t1 \in CompareTexts, t2 \in ComparisonTexts :
           uploads = [md |-> t1,
                      comparison |-> IF mode = "single" THEN text_of(<<>>) ELSE t2]
    /\ self = new_analyzer
    /\ frame = frames_of(mode)
    /\ returned = {}
    /\ out = NoOut

\* the keys a question of a document of CompareTexts can have
OperationKeys ==
    { <<"a", "b", "c", "d">>, <<"a", "b", "c">>, <<"a", "b", "c", "e">>,
      <<"a", "b", "c", "d", "e">>, <<>> }

NextOperations ==
    \/ Next
    \/ Summary
    \/ \E q \in OperationKeys : ShowStatistics(q)
    \/ FindMatches
    \/ \E k \in PairIndexes : CompareViz(k)
    \/ ExportCSV

\* one run of main() in either mode, followed by any operations
SpecOperations == InitOperations /\ [][NextOperations]_vars

\* the survey parse returned for a text
ParsedFrom(text, survey) == \E p \in returned : p.text = text /\ p.survey = survey

\* C22: the stored surveys change only when the caller assigns the result of
\* a parse call, and then to that result; once both are assigned they stay
\* what parse returned, whatever operations run.
C22_SurveysOnlyAssigned ==
    /\ [][self' # self =>
             \E c \in DOMAIN frame :
                 /\ frame[c].pc = "returned" /\ frame'[c].pc = "assigned"
                 /\ self' = [self EXCEPT ![target(c)] = frame[c].questions]]_vars
    /\ [](parsed =>
             /\ ParsedFrom(uploads.md, self.questions)
             /\ mode = "compare" => ParsedFrom(uploads.comparison, self.comparison_questions)
             /\ mode = "single" => self.comparison_questions = <<>>)

\* a comparison has been shown for two surveys that are still the parsed ones
C22_Witness ==
    /\ parsed /\ out.op = "comparison"
    /\ out.matching_pair.data1 \in QuestionsOf(self.questions)
    /\ out.matching_pair.data2 \in QuestionsOf(self.comparison_questions)
    /\ out.all_options # <<>>

(***************************************************************************)
(* Two parse calls whose steps interleave.                                 *)
(***************************************************************************)
\* the documents of the second thread of SpecThreads
ThreadTexts ==
    { text_of(<<QLine(Single, <<"a">>), DataLine(<<"A">>, <<"5">>),
                QLine(Fill, <<"b">>), <<"3", "7">>>>),
      text_of(<<QLine(Other, <<"c">>), DataLine(<<"A">>, <<"5">>)>>),
      text_of(<<QLine(Fill, <<" ", "a", "\t">>), <<>>, <<"-", "5">>>>) }

InitThreads ==
    /\ mode = "compare"
    /\ \E t1 \in Texts(SessionLines, MaxSessionLines), t2 \in ThreadTexts :
           uploads = [md |-> t1, comparison |-> t2]
    /\ self = new_analyzer
    /\ frame = frames_of(mode)
    /\ returned = {}
    /\ out = NoOut

\* lines 44-51, entered by a thread of its own: the call does not wait for
\* the other one
CallThread(c) ==
    /\ c \in DOMAIN frame
    /\ frame[c].pc = "pending"
    /\ frame' = [frame EXCEPT ![c] =
           [pc |-> "outer", md_content |-> argument(c),
            lines |-> split_lines(argument(c)), i |-> 0,
            questions |-> new_questions(self),
            current_question |-> NoQuestion,
            current_question_text |-> <<>>, question_type |-> NoType]]
    /\ UNCHANGED <<uploads, mode, self, returned, out>>

NextThreads ==
    \/ \E c \in Calls : CallThread(c)
    \/ \E c \in Calls : OuterSkip(c)
    \/ \E c \in Calls : OuterUnrecognized(c)
    \/ \E c \in Calls : OuterHeader(c)
    \/ \E c \in Calls : InnerEnd(c)
    \/ \E c \in Calls : InnerBlank(c)
    \/ \E c \in Calls : InnerBreak(c)
    \/ \E c \in Calls : InnerFill(c)
    \/ \E c \in Calls : InnerOption(c)
    \/ \E c \in Calls : Return(c)
    \/ \E c \in Calls : Assign(c)

\* two threads parse one document each on the same analyzer, step by step
SpecThreads == InitThreads /\ [][NextThreads]_vars

RECURSIVE RunAlone(_)
\* the dict a call returns when its steps run one after the other from the
\* frame f, nothing else running
RunAlone(f) ==
    IF f.pc = "outer"
    THEN IF at_end(f)
         THEN save_current(f.questions, f.current_question, f.current_question_text)
         ELSE LET line == stripped_line(f)
                  saved == save_current(f.questions, f.current_question,
                                        f.current_question_text)
              IN  IF ~is_question_line(line)
                  THEN RunAlone([f EXCEPT !.i = @ + 1])
                  ELSE IF lookup_type(line) = NoType
                  THEN RunAlone([f EXCEPT !.questions = saved, !.question_type = NoType,
                                          !.i = @ + 1])
                  ELSE RunAlone([f EXCEPT
                           !.questions = saved,
                           !.question_type = lookup_type(line),
                           !.current_question_text = question_text_of(line),
                           !.current_question =
                               Some(new_question(question_text_of(line), lookup_type(line))),
                           !.i = @ + 1, !.pc = "inner"])
    ELSE IF at_end(f) THEN RunAlone([f EXCEPT !.pc = "outer"])
         ELSE LET line == stripped_line(f)
              IN  IF line = <<>> THEN RunAlone([f EXCEPT !.i = @ + 1])
                  ELSE IF is_question_line(line) THEN RunAlone([f EXCEPT !.pc = "outer"])
                  ELSE IF f.question_type = "fill_in_blank"
                  THEN RunAlone([f EXCEPT
                           !.current_question =
                               Some([f.current_question[1] EXCEPT !.data = fill_data(line).data]),
                           !.i = @ + 1, !.pc = "outer"])
                  ELSE RunAlone([f EXCEPT
                           !.current_question = Some(with_option(f.current_question[1], line)),
                           !.i = @ + 1])

\* the Survey parse returns for a text when it runs alone
ParseAlone(text) ==
    RunAlone([pending_frame EXCEPT !.pc = "outer", !.md_content = text,
                                   !.lines = split_lines(text)])

\* C23: two parse calls whose steps interleave each return the Survey the
\* call returns alone, and no step of one call changes the locals of the other.
C23_InterleavedAsAlone ==
    /\ [](\A p \in returned : p.survey = ParseAlone(p.text))
    /\ [][\A c, d \in DOMAIN frame :
             (c # d /\ frame'[c] # frame[c]) => frame'[d] = frame[d]]_vars

\* both calls have returned, two different Surveys with questions, the first
\* not yet stored
C23_Witness ==
    /\ frame[1].pc = "returned" /\ frame[2].pc \in {"returned", "assigned"}
    /\ frame[1].questions # <<>> /\ frame[2].questions # <<>>
    /\ frame[1].questions # frame[2].questions

(***************************************************************************)
(* Termination of parse.                                                   *)
(***************************************************************************)
InitTermination ==
    /\ mode = "single"
    /\ \E t \in Texts(SessionLines, MaxSessionLines) :
           uploads = [md |-> t, comparison |-> <<>>]
    /\ self = new_analyzer
    /\ frame = frames_of(mode)
    /\ returned = {}
    /\ out = NoOut

\* a run of main() on one file; it takes its next step as long as it has one
SpecTermination == InitTermination /\ [][Next]_vars /\ WF_vars(Next)

\* the call c is in one of its two scans
Scanning(f) == f.pc \in {"outer", "inner"}

\* C24: parse terminates: the cursor never decreases; an iteration of the
\* outer scan advances it; an iteration of the data scan advances it or
\* leaves the scan, at a question line or at the end of the input; and every
\* call returns, with the cursor at the end of the input.
C24_ParseTerminates ==
    /\ [][\A c \in DOMAIN frame :
             LET f == frame[c]
                 g == frame'[c]
             IN  (Scanning(f) /\ g # f) =>
                     /\ g.i >= f.i
                     /\ (f.pc = "outer" /\ Scanning(g)) => g.i = f.i + 1
                     /\ (f.pc = "inner" /\ Scanning(g)) =>
                            \/ g.i = f.i + 1
                            \/ /\ g.i = f.i /\ g.pc = "outer"
                               /\ at_end(f) \/ is_question_line(stripped_line(f))
                     /\ ~Scanning(g) => g.pc = "returned" /\ g.i = Len(f.lines)]_vars
    /\ <>(\A c \in DOMAIN frame : frame[c].pc = "assigned" /\ frame[c].i = Len(frame[c].lines))

\* a call has returned after its data scan stopped at a question line
C24_Witness ==
    \E c \in DOMAIN frame :
        /\ frame[c].pc = "returned"
        /\ Len(frame[c].lines) >= 2
        /\ frame[c].i = Len(frame[c].lines)
        /\ Len(frame[c].questions) >= 1
        /\ is_question_line(strip(frame[c].lines[2]))

(***************************************************************************)
(* The rating block of the example of the file format.                     *)
(***************************************************************************)
\* the five data lines of the example, lines 1341-1345, and their
\* percentage annotations
ExampleLines ==
    << DataLine(<<"1">>, <<"5", "2">>),
       DataLine(<<"2">>, <<"1", "1">>),
       DataLine(<<"3">>, <<"1", "0", "8">>),
       DataLine(<<"4">>, <<"1", "2", "4">>),
       DataLine(<<"5">>, <<"3", "0", "7">>) >>

ExampleAnnotations ==
    << <<" ", "(", "8", ".", "6", "4", "%", ")">>,
       <<" ", "(", "1", ".", "8", "3", "%", ")">>,
       <<" ", "(", "1", "7", ".", "9", "4", "%", ")">>,
       <<" ", "(", "2", "0", ".", "6", "0", "%", ")">>,
       <<" ", "(", "5", "1", ".", "0", "0", "%", ")">> >>

\* the rating block, the lines at the positions of annotated with their annotation
ExampleBlock(annotated) ==
    <<QLine(Rating, <<"b">>)>> \o
    [k \in 1..Len(ExampleLines) |->
        IF k \in annotated THEN ExampleLines[k] \o ExampleAnnotations[k]
        ELSE ExampleLines[k]]

\* what precedes the rating block in a document of SpecExample, and what follows
ExampleBefore ==
    { <<>>,
      <<QLine(Other, <<"c">>)>>,
      <<QLine(Fill, <<"a">>)>>,
      <<QLine(Fill, <<"a">>), <<"3", "7">>, <<"x">>>> }

ExampleAfter ==
    { <<>>,
      <<QLine(Multi, <<"d">>), DataLine(<<"A">>, <<"2", "8">>)>>,
      << <<>>, QLine(Multi, <<"d">>), DataLine(<<"A">>, <<"2", "8">>)>> }

ExampleTexts ==
    { join(before \o ExampleBlock(annotated) \o after) :
          before \in ExampleBefore, after \in ExampleAfter,
          annotated \in SUBSET (1..Len(ExampleLines)) }

InitExample ==
    /\ mode = "single"
    /\ \E t \in ExampleTexts : uploads = [md |-> t, comparison |-> <<>>]
    /\ self = new_analyzer
    /\ frame = frames_of(mode)
    /\ returned = {}
    /\ out = NoOut

\* one run of main() on a document that holds the example's rating block
SpecExample == InitExample /\ [][Next]_vars

\* C25: the rating block of the example, each data line with or without its
\* percentage annotation, parses to exactly one rating question, with the
\* options 1 to 5 and the counts 52, 11, 108, 124, 307 in line order.
C25_ExampleRatingBlock ==
    \A p \in returned :
        LET ratings == {k \in 1..Len(p.survey) : p.survey[k].value.type = "rating"}
        IN  /\ Cardinality(ratings) = 1
            /\ \A k \in ratings :
                   /\ p.survey[k].value.options =
                          << <<"1">>, <<"2">>, <<"3">>, <<"4">>, <<"5">> >>
                   /\ p.survey[k].value.data = <<52, 11, 108, 124, 307>>

\* a Survey returned for a document in which the first and the last data
\* line are annotated and the third is not
C25_Witness ==
    \E p \in returned :
        /\ p.survey # <<>>
        /\ contains(p.text, ExampleLines[1] \o ExampleAnnotations[1])
        /\ contains(p.text, ExampleLines[3] \o <<NL>>)
        /\ contains(p.text, ExampleLines[5] \o ExampleAnnotations[5])

(***************************************************************************)
(* Claims about the extent of a question's block.                          *)
(***************************************************************************)
\* the lines the cursor of f has passed agree on what a header is: the code
\* starts a question exactly at the headers of the format
HeadersAgree(f) ==
    \A k \in 1..f.i : StartsQuestion(Consumed(f)[k]) <=> IsHeader(Consumed(f)[k])

\* the lines passed after the last header of the format, the empty ones left out
LinesAfterLastHeader(f) ==
    LET ls == Consumed(f)
        heads == {h \in 1..f.i : IsHeader(ls[h])}
        NonBlank(l) == l # <<>>
    IN  SelectSeq(SubSeq(ls, LastOf(heads) + 1, f.i), NonBlank)

\* C26: only a header of the format (marker, bracketed tag, tag one of the
\* four labels) ends a question's block: a line of header shape whose tag is
\* no label is skipped, and the option lines after it still go to the
\* question before it.
C26_OnlyHeadersEndBlock ==
    \A c \in DOMAIN frame :
        LET f == frame[c] IN
        (/\ f.pc \in {"inner", "outer"}
         /\ HeadersAgree(f)
         /\ \E h \in 1..f.i : IsHeader(Consumed(f)[h])
         /\ f.current_question # NoQuestion
         /\ f.current_question[1].type # "fill_in_blank")
        => f.current_question[1] =
               WithOptions(new_question(f.current_question_text, f.current_question[1].type),
                           LinesAfterLastHeader(f))

\* the data lines of ls that give an entry to a question of another type than
\* fill-in-blank: a colon, and a count after ': '
EntryLines(ls) ==
    {j \in 1..Len(ls) :
        /\ ~is_question_line(ls[j])
        /\ contains(ls[j], <<":">>) /\ re_search_count(ls[j]).ok}

\* C27: every question of a returned Survey is built from the data lines
\* between one header of its text and the next line of header shape, in line
\* order; the blocks of two questions share no line, so a data line gives an
\* entry to at most one question and a line before the first header to none;
\* and every header, also one that ended a block, has started a question.
C27_EntriesFromOwnBlock ==
    \A p \in returned :
        LET ls == StrippedLines(p.text)
            heads == {h \in 1..Len(ls) : StartsQuestion(ls[h])}
            first == CHOOSE h \in heads : \A m \in heads : h <= m
            entries == [k \in 1..Len(p.survey) |-> Len(p.survey[k].value.options)]
        IN
        /\ \A k \in 1..Len(p.survey) :
               \E h \in heads :
                   /\ question_text_of(ls[h]) = p.survey[k].key
                   /\ p.survey[k].value = BuiltFrom(ls, h)
        /\ \A h \in heads : question_text_of(ls[h]) \in dict_keys(p.survey)
        /\ heads # {} =>
               SumOver(1..Len(p.survey), entries)
                   <= Cardinality({j \in EntryLines(ls) : j > first})
        /\ heads = {} => p.survey = <<>>

\* a Survey of two questions: the first has the entry of the line after its
\* header, the second started at the header that ended the first one's block
C27_Witness ==
    \E p \in returned :
        LET ls == StrippedLines(p.text) IN
        /\ Len(p.survey) = 2
        /\ Len(ls) = 3
        /\ StartsQuestion(ls[1]) /\ 2 \in EntryLines(ls) /\ StartsQuestion(ls[3])
        /\ Len(p.survey[1].value.options) = 1
        /\ p.survey[2].value.options = <<>>

\* C28: in the aligned comparison of two choice questions the counts of each
\* side sum to the sum of the counts of that side's question, also when a
\* label occurs on more than one data line of the question.
C28_AlignedSumsPreserved ==
    (out.op = "comparison"
        /\ out.matching_pair.type \in {"single_choice", "multiple_choice"}) =>
        /\ sum(out.counts1) = sum(out.matching_pair.data1.data)
        /\ sum(out.counts2) = sum(out.matching_pair.data2.data)

====
